---- MODULE Spec2Model ----
(***************************************************************************)
(* A model of pawprint-vpn (src/src/main.rs): a one-shot converter that    *)
(* parses a vless:// link (parse_config), maps it to an Xray configuration *)
(* (build_config) and persists it with a temp-file + rename (save_config). *)
(*                                                                         *)
(* Strings that the program only copies are opaque TLA+ strings.  Strings  *)
(* the program (or the url crate on its behalf) transforms are sequences   *)
(* of one-character strings.  Option<T> is a sequence of length 0 or 1.    *)
(***************************************************************************)
EXTENDS Integers, Sequences, FiniteSets, TLC

VARIABLES
    url,        \* pure-function check of parse_config: the input link
    parsed,     \* ... and parse_config's result on it
    d1, d2,     \* pure-function check of build_config: two descriptors
    out1, out2, \* ... and build_config's output on each
    pc,         \* per run of main: the position in main / save_config
    args,       \* per run: the command line (config, force)
    vless,      \* per run: Option<VlessConfig> returned by parse_config
    xray,       \* per run: Option<XrayConfig> returned by build_config
    json,       \* per run: json_content, the serialized text (lines)
    fd,         \* per run: inode of the open temp file (0 = none)
    off,        \* per run: file offset of that descriptor
    err,        \* per run: the error main returned ("none" while running)
    cause,      \* per run: underlying cause of a PersistenceError
    dirExists,  \* file system: the destination's parent directory exists
    names,      \* file system: path -> inode (NoFile when there is none)
    inodes,     \* file system: inode -> content (sequence of lines)
    fs0,        \* the file system as it was before any run started
    observed    \* what the concurrent reader last read at the destination

vars == <<url, parsed, d1, d2, out1, out2, pc, args, vless, xray, json, fd,
          off, err, cause, dirExists, names, inodes, fs0, observed>>

pureVars == <<url, parsed, d1, d2, out1, out2>>
runVars  == <<pc, args, vless, xray, json, fd, off, err, cause>>
fsVars   == <<dirExists, names, inodes, fs0, observed>>

None    == <<>>
Some(x) == <<x>>
IsSome(o) == o # <<>>

\* ------------------------------------------------------------------------
\* Strings as character sequences
\* ------------------------------------------------------------------------

RECURSIVE Join(_)
Join(s) == IF s = <<>> THEN "" ELSE Head(s) \o Join(Tail(s))

Digits == [c \in {"0","1","2","3","4","5","6","7","8","9"} |->
            CASE c = "0" -> 0 [] c = "1" -> 1 [] c = "2" -> 2 [] c = "3" -> 3
              [] c = "4" -> 4 [] c = "5" -> 5 [] c = "6" -> 6 [] c = "7" -> 7
              [] c = "8" -> 8 [] c = "9" -> 9]

\* The two-hex-digit escapes the bounded inputs use, with the byte they
\* stand for.
EscapeTable == [e \in {<<"2","0">>, <<"2","2">>, <<"3","C">>} |->
                 CASE e = <<"2","0">> -> " "
                   [] e = <<"2","2">> -> "'"
                   [] e = <<"3","C">> -> "<"]

\* percent_decode: every %XY with XY hex digits becomes the byte XY; any
\* other character (a lone % included) is kept.
RECURSIVE PercentDecode(_)
PercentDecode(s) ==
    IF s = <<>> THEN <<>>
    ELSE IF /\ Head(s) = "%"
            /\ Len(s) >= 3
            /\ <<s[2], s[3]>> \in DOMAIN EscapeTable
         THEN <<EscapeTable[<<s[2], s[3]>>]>> \o PercentDecode(SubSeq(s, 4, Len(s)))
         ELSE <<Head(s)>> \o PercentDecode(Tail(s))

\* form_urlencoded::parse, used by Url::query_pairs: '+' is a space, then
\* percent-decoding.
RECURSIVE PlusToSpace(_)
PlusToSpace(s) ==
    IF s = <<>> THEN <<>>
    ELSE <<IF Head(s) = "+" THEN " " ELSE Head(s)>> \o PlusToSpace(Tail(s))

FormDecode(s) == PercentDecode(PlusToSpace(s))

\* The url crate stores the fragment percent-ENCODED: characters of its
\* FRAGMENT encode set ('<' among them) are escaped on parsing, existing
\* escapes are kept verbatim.
RECURSIVE FragmentEncode(_)
FragmentEncode(s) ==
    IF s = <<>> THEN <<>>
    ELSE (IF Head(s) = "<" THEN <<"%","3","C">> ELSE <<Head(s)>>)
         \o FragmentEncode(Tail(s))

\* ------------------------------------------------------------------------
\* The input link, split at its delimiters:
\*   <prefix><user>@<host>:<port>?<query>#<frag>
\* prefix is the text up to and including the first "//" (opaque);
\* user, port, frag are absent (None) when their delimiter is absent;
\* query is the sequence of key=value pairs as written, values raw.
\* ------------------------------------------------------------------------

U16Max == 65535

\* Url's port parser: decimal digits accumulated left to right, an error on
\* a non-digit or on a value above u16::MAX; no digits at all is "no port".
RECURSIVE PortDigits(_, _)
PortDigits(s, acc) ==
    IF s = <<>> THEN acc
    ELSE IF acc < 0 \/ Head(s) \notin DOMAIN Digits THEN -1
    ELSE LET v == acc * 10 + Digits[Head(s)]
         IN  IF v > U16Max THEN -1 ELSE PortDigits(Tail(s), v)

\* Url::parse on a link whose scheme is not special: the port must be valid,
\* and the host may be empty only when neither credentials nor a port
\* accompany it.  Result: "ok" or the ParseError.
UrlParseError(u) ==
    LET hasPort  == IsSome(u.port)
        hasCreds == IsSome(u.user) /\ u.user[1] # ""
    IN  IF u.host = "" /\ (hasPort \/ hasCreds) THEN "EmptyHost"
        ELSE IF hasPort /\ PortDigits(u.port[1], 0) < 0 THEN "InvalidPort"
        ELSE "ok"

\* Url::username: "" when there is no user-info.
Username(u) == IF IsSome(u.user) THEN u.user[1] ELSE ""

\* Url::host_str: None for an empty host.
HostStr(u) == IF u.host = "" THEN None ELSE Some(u.host)

\* Url::port: the explicit port (the vless scheme has no default port).
Port(u) == IF IsSome(u.port) /\ u.port[1] # <<>>
           THEN Some(PortDigits(u.port[1], 0)) ELSE None

\* Url::fragment: the stored (encoded) fragment.
Fragment(u) == IF IsSome(u.frag) THEN Some(FragmentEncode(u.frag[1])) ELSE None

\* Url::query_pairs collected into the HashMap: decoded values, a repeated
\* key keeps its last value.
RECURSIVE QueryParams(_)
QueryParams(q) ==
    IF q = <<>> THEN <<>>
    ELSE LET rest == QueryParams(SubSeq(q, 1, Len(q) - 1))
             kv   == q[Len(q)]
         IN  [k \in (DOMAIN rest) \cup {kv[1]} |->
                IF k = kv[1] THEN Join(FormDecode(kv[2])) ELSE rest[k]]

DefaultTag == "VLESS-Config"

Ok(v)   == [err |-> "none", val |-> Some(v)]
Err(e)  == [err |-> e, val |-> None]

\* parse_config with the port looked at before the identity.
parse_config_port_first(u) ==
    IF u.prefix # "vless://" THEN Err("InvalidScheme")
    ELSE IF UrlParseError(u) # "ok" THEN Err("MalformedUrl")
    ELSE IF ~IsSome(Port(u)) THEN Err("MissingPort")
    ELSE IF Username(u) = "" THEN Err("MissingIdentity")
    ELSE IF ~IsSome(HostStr(u)) THEN Err("MissingHost")
    ELSE Ok([uuid    |-> Username(u),
             address |-> HostStr(u)[1],
             port    |-> Port(u)[1],
             params  |-> QueryParams(u.query),
             tag     |-> IF IsSome(Fragment(u))
                         THEN Join(Fragment(u)[1]) ELSE DefaultTag])

\* parse_config.  The error kinds name the messages of the source:
\*   InvalidScheme   "URL must start with vless://"
\*   MalformedUrl    url::ParseError
\*   MissingIdentity "UUID not found in URL"
\*   MissingHost     "Host not found in URL"
\*   MissingPort     "Port not found in URL"
parse_config(u) ==
    IF u.prefix # "vless://" THEN Err("InvalidScheme")
    ELSE IF UrlParseError(u) # "ok" THEN Err("MalformedUrl")
    ELSE IF Username(u) = "" THEN Err("MissingIdentity")
    ELSE IF ~IsSome(HostStr(u)) THEN Err("MissingHost")
    ELSE IF ~IsSome(Port(u)) THEN Err("MissingPort")
    ELSE Ok([uuid    |-> Username(u),
             address |-> HostStr(u)[1],
             port    |-> Port(u)[1],
             params  |-> QueryParams(u.query),
             tag     |-> IF IsSome(Fragment(u))
                         THEN Join(Fragment(u)[1]) ELSE DefaultTag])

\* ------------------------------------------------------------------------
\* build_config
\* ------------------------------------------------------------------------

\* params.get(k).cloned().unwrap_or_else(|| dflt)
GetOr(params, k, dflt) == IF k \in DOMAIN params THEN params[k] ELSE dflt

\* network_type falling back on a parameter the builder must not consult.
network_type_extra(c) == GetOr(c.params, "type", GetOr(c.params, "x1", "tcp"))

network_type(c) == GetOr(c.params, "type", "tcp")

\* security without the "tls" default.
security_no_default(c) == GetOr(c.params, "security", "none")

security(c) == GetOr(c.params, "security", "tls")

realitySettings(c) ==
    [publicKey   |-> GetOr(c.params, "pbk", ""),
     password    |-> GetOr(c.params, "pbk", ""),
     fingerprint |-> GetOr(c.params, "fp", "chrome"),
     serverName  |-> GetOr(c.params, "sni", ""),
     shortId     |-> GetOr(c.params, "sid", ""),
     spiderX     |-> "/"]

\* tlsSettings with the reality block's empty-string default for sni.
tlsSettings_empty_sni(c) ==
    [serverName    |-> GetOr(c.params, "sni", ""),
     allowInsecure |-> FALSE]

tlsSettings(c) ==
    [serverName    |-> GetOr(c.params, "sni", c.address),
     allowInsecure |-> FALSE]

\* The JSON object stream_settings: a function whose domain is its key set.
stream_settings(c) ==
    [k \in {"network", "security"}
           \cup (IF security(c) = "reality" THEN {"realitySettings"}
                 ELSE IF security(c) = "tls" THEN {"tlsSettings"}
                 ELSE {}) |->
        CASE k = "network"         -> network_type(c)
          [] k = "security"        -> security(c)
          [] k = "realitySettings" -> realitySettings(c)
          [] k = "tlsSettings"     -> tlsSettings(c)]

\* user that drops an empty flow.
user_nonempty_flow(c) ==
    [k \in {"id", "encryption", "level"}
           \cup (IF "flow" \in DOMAIN c.params /\ c.params["flow"] # ""
                 THEN {"flow"} ELSE {}) |->
        CASE k = "id"         -> c.uuid
          [] k = "encryption" -> "none"
          [] k = "level"      -> 0
          [] k = "flow"       -> c.params["flow"]]

user(c) ==
    [k \in {"id", "encryption", "level"}
           \cup (IF "flow" \in DOMAIN c.params THEN {"flow"} ELSE {}) |->
        CASE k = "id"         -> c.uuid
          [] k = "encryption" -> "none"
          [] k = "level"      -> 0
          [] k = "flow"       -> c.params["flow"]]

outbound(c) ==
    [protocol       |-> "vless",
     settings       |-> [vnext |-> <<[address |-> c.address,
                                      port    |-> c.port,
                                      users   |-> <<user(c)>>]>>],
     streamSettings |-> stream_settings(c),
     tag            |-> c.tag]

SocksPort == 10808

inbound ==
    [port     |-> SocksPort,
     protocol |-> "socks",
     settings |-> [auth |-> "noauth", udp |-> TRUE],
     tag      |-> "socks-in"]

build_config(c) ==
    [inbounds |-> <<inbound>>, outbounds |-> <<outbound(c)>>]

\* ------------------------------------------------------------------------
\* serde_json::to_string_pretty on XrayConfig, as the sequence of its lines.
\* Struct fields come in declaration order, the keys of a json! object in
\* sorted order (serde_json's default map).
\* ------------------------------------------------------------------------

Q(s) == "\"" \o s \o "\""
KV(ind, k, v, comma) == ind \o Q(k) \o ": " \o v \o (IF comma THEN "," ELSE "")

UserLines(u) ==
    <<"              {",
      KV("                ", "encryption", Q(u.encryption), TRUE)>>
    \o (IF "flow" \in DOMAIN u
        THEN <<KV("                ", "flow", Q(u.flow), TRUE)>> ELSE <<>>)
    \o <<KV("                ", "id", Q(u.id), TRUE),
         KV("                ", "level", ToString(u.level), FALSE),
         "              }">>

StreamLines(s) ==
    <<"      \"streamSettings\": {",
      KV("        ", "network", Q(s.network), TRUE)>>
    \o (IF "realitySettings" \in DOMAIN s
        THEN LET r == s.realitySettings
             IN <<"        \"realitySettings\": {",
                  KV("          ", "fingerprint", Q(r.fingerprint), TRUE),
                  KV("          ", "password", Q(r.password), TRUE),
                  KV("          ", "publicKey", Q(r.publicKey), TRUE),
                  KV("          ", "serverName", Q(r.serverName), TRUE),
                  KV("          ", "shortId", Q(r.shortId), TRUE),
                  KV("          ", "spiderX", Q(r.spiderX), FALSE),
                  "        },">>
        ELSE <<>>)
    \o <<KV("        ", "security", Q(s.security), "tlsSettings" \in DOMAIN s)>>
    \o (IF "tlsSettings" \in DOMAIN s
        THEN LET t == s.tlsSettings
             IN <<"        \"tlsSettings\": {",
                  KV("          ", "allowInsecure",
                     IF t.allowInsecure THEN "true" ELSE "false", TRUE),
                  KV("          ", "serverName", Q(t.serverName), FALSE),
                  "        }">>
        ELSE <<>>)
    \o <<"      },">>

InboundLines(i) ==
    <<"    {",
      KV("      ", "port", ToString(i.port), TRUE),
      KV("      ", "protocol", Q(i.protocol), TRUE),
      "      \"settings\": {",
      KV("        ", "auth", Q(i.settings.auth), TRUE),
      KV("        ", "udp", IF i.settings.udp THEN "true" ELSE "false", FALSE),
      "      },",
      KV("      ", "tag", Q(i.tag), FALSE),
      "    }">>

OutboundLines(o) ==
    LET v == o.settings.vnext[1]
    IN <<"    {",
         KV("      ", "protocol", Q(o.protocol), TRUE),
         "      \"settings\": {",
         "        \"vnext\": [",
         "          {",
         KV("            ", "address", Q(v.address), TRUE),
         KV("            ", "port", ToString(v.port), TRUE),
         "            \"users\": [">>
       \o UserLines(v.users[1])
       \o <<"            ]",
            "          }",
            "        ]",
            "      },">>
       \o StreamLines(o.streamSettings)
       \o <<KV("      ", "tag", Q(o.tag), FALSE),
            "    }">>

to_string_pretty(x) ==
    <<"{", "  \"inbounds\": [">>
    \o InboundLines(x.inbounds[1])
    \o <<"  ],", "  \"outbounds\": [">>
    \o OutboundLines(x.outbounds[1])
    \o <<"  ]", "}">>

\* ------------------------------------------------------------------------
\* Bounded inputs
\* ------------------------------------------------------------------------

MaxFragLen   == 3   \* longest fragment, in characters
MaxQueryLen  == 2   \* most key=value pairs in a query
MaxExtra     == 1   \* number of distinct unrecognized parameter names

RECURSIVE SeqsUpTo(_, _)
SeqsUpTo(S, n) ==
    IF n = 0 THEN {<<>>}
    ELSE LET shorter == SeqsUpTo(S, n - 1)
         IN  shorter \cup {Append(s, x) : s \in shorter, x \in S}

FragChars == {"<", "%", "2"}

Prefixes == {"vless://", "VLESS://", "http://"}
Users    == {None, Some(""), Some("11111111-2222")}
Hosts    == {"", "example.com"}
Ports    == {None, Some(<<>>), Some(<<"4","4","3">>),
             Some(<<"6","5","5","3","6">>), Some(<<"4","x">>)}
Pairs    == {<<"flow", <<>>>>, <<"flow", <<"v","+","%","2","0">>>>,
             <<"sni", <<"c","d","n">>>>}
Frags    == {None} \cup {Some(f) : f \in SeqsUpTo(FragChars, MaxFragLen)}

Urls == [prefix : Prefixes, user : Users, host : Hosts, port : Ports,
         query : SeqsUpTo(Pairs, MaxQueryLen), frag : Frags]

Recognized == {"type", "security", "pbk", "sni", "fp", "sid", "flow"}
ExtraKeys  == {"x" \o ToString(i) : i \in 1..MaxExtra}

ParamValues ==
    [k \in Recognized \cup ExtraKeys |->
        CASE k = "type"     -> {"ws"}
          [] k = "security" -> {"reality", "tls", "none", ""}
          [] k = "pbk"      -> {"PBK"}
          [] k = "sni"      -> {"", "cdn.example.com"}
          [] k = "fp"       -> {"firefox"}
          [] k = "sid"      -> {"ab"}
          [] k = "flow"     -> {"", "xtls-rprx-vision"}
          [] OTHER          -> {"h2"}]

RECURSIVE MapsOver(_)
MapsOver(K) ==
    IF K = {} THEN {<<>>}
    ELSE LET k    == CHOOSE x \in K : TRUE
             rest == MapsOver(K \ {k})
         IN  rest \cup {[x \in DOMAIN m \cup {k} |-> IF x = k THEN v ELSE m[x]]
                          : m \in rest, v \in ParamValues[k]}

ParamMaps == MapsOver(Recognized \cup ExtraKeys)

Descriptors ==
    [uuid : {"11111111-2222"}, address : {"example.com"}, port : {443},
     params : ParamMaps, tag : {"MyServer"}]

\* ------------------------------------------------------------------------
\* State before anything runs
\* ------------------------------------------------------------------------

NoFile == 0

PureIdle ==
    /\ url = None /\ parsed = None
    /\ d1 = None /\ d2 = None /\ out1 = None /\ out2 = None

RunsIdle ==
    /\ pc = <<>> /\ args = <<>> /\ vless = <<>> /\ xray = <<>>
    /\ json = <<>> /\ fd = <<>> /\ off = <<>> /\ err = <<>> /\ cause = <<>>

FsIdle ==
    /\ dirExists = FALSE
    /\ names = <<>>
    /\ inodes = <<>>
    /\ fs0 = [dirExists |-> FALSE, names |-> names, inodes |-> inodes]
    /\ observed = None

\* ------------------------------------------------------------------------
\* parse_config as a pure function of a bounded input
\* ------------------------------------------------------------------------

InitParse ==
    /\ url \in Urls /\ parsed = None
    /\ d1 = None /\ d2 = None /\ out1 = None /\ out2 = None
    /\ RunsIdle /\ FsIdle

Parse ==
    /\ url # None /\ parsed = None
    /\ parsed' = Some(parse_config(url))
    /\ UNCHANGED <<url, d1, d2, out1, out2, runVars, fsVars>>

NextParse == Parse

SpecParse == InitParse /\ [][NextParse]_vars

\* ------------------------------------------------------------------------
\* build_config as a pure function of a bounded descriptor, and of a second
\* descriptor that differs from the first in one parameter
\* ------------------------------------------------------------------------

InitBuild ==
    /\ d1 \in Descriptors /\ d2 = None /\ out1 = None /\ out2 = None
    /\ url = None /\ parsed = None
    /\ RunsIdle /\ FsIdle

Build ==
    /\ d1 # None /\ out1 = None
    /\ out1' = Some(build_config(d1))
    /\ UNCHANGED <<url, parsed, d1, d2, out2, runVars, fsVars>>

\* d with parameter k set to v
WithParam(d, k, v) ==
    [d EXCEPT !.params = [x \in DOMAIN d.params \cup {k} |->
                             IF x = k THEN v ELSE d.params[x]]]

\* d without parameter k
WithoutParam(d, k) ==
    [d EXCEPT !.params = [x \in DOMAIN d.params \ {k} |-> d.params[x]]]

BuildVariantSet ==
    /\ out1 # None /\ out2 = None
    /\ \E k \in Recognized \cup ExtraKeys : \E v \in ParamValues[k] :
          /\ d2' = WithParam(d1, k, v)
          /\ out2' = Some(build_config(d2'))
    /\ UNCHANGED <<url, parsed, d1, out1, runVars, fsVars>>

BuildVariantUnset ==
    /\ out1 # None /\ out2 = None
    /\ \E k \in DOMAIN d1.params :
          /\ d2' = WithoutParam(d1, k)
          /\ out2' = Some(build_config(d2'))
    /\ UNCHANGED <<url, parsed, d1, out1, runVars, fsVars>>

NextBuild == Build \/ BuildVariantSet \/ BuildVariantUnset

SpecBuild == InitBuild /\ [][NextBuild]_vars

\* ------------------------------------------------------------------------
\* Runs of main against a shared file system.  Each system call of
\* save_config is one step, so that runs and readers interleave between them.
\* ------------------------------------------------------------------------

ChunkLen == 16   \* lines one write call of fs::write transfers

RunUrls ==
    {[prefix |-> "vless://", user |-> Some("11111111-2222"),
      host |-> "example.com", port |-> Some(<<"4","4","3">>),
      query |-> <<<<"security", <<"t","l","s">>>>, <<"sni", <<"c","d","n">>>>>>,
      frag |-> Some(<<"A">>)],
     [prefix |-> "vless://", user |-> Some("11111111-2222"),
      host |-> "example.com", port |-> Some(<<"4","4","3">>),
      query |-> <<<<"security", <<"r","e","a","l","i","t","y">>>>,
                  <<"flow", <<"x">>>>>>,
      frag |-> None],
     [prefix |-> "http://", user |-> Some("11111111-2222"),
      host |-> "example.com", port |-> Some(<<"4","4","3">>),
      query |-> <<>>, frag |-> None]}

Outputs == {"out.json", "cfg/out.json"}

OldContent   == <<"old config">>
StaleContent == <<"stale temp">>
Hole         == "\\0"

Runs == DOMAIN pc

\* A temporary path that is the destination itself (a direct write).
temp_path_same(o) == o

\* PathBuf::from(format!("{}.tmp", output_path.display()))

temp_path(o) == o \o ".tmp"

\* output_path.parent(), None standing for the empty parent as well
parent(o) == IF o = "cfg/out.json" THEN Some("cfg") ELSE None

\* Path::exists
exists(p) == names[p] # NoFile

\* output_path.exists() && !force, with the negation lost
refuses_when_forced(e, force) == e /\ force

\* output_path.exists() && !force

refuses(e, force) == e /\ ~force

Min(a, b) == IF a < b THEN a ELSE b

\* The content of a file after data is written at offset o (in lines); a gap
\* left by an earlier truncation reads as holes.
WriteAt(content, o, data) ==
    [i \in 1..(IF Len(content) > o + Len(data)
               THEN Len(content) ELSE o + Len(data)) |->
        IF i > o /\ i <= o + Len(data) THEN data[i - o]
        ELSE IF i <= Len(content) THEN content[i]
        ELSE Hole]

FreshInode(ino) ==
    CHOOSE i \in 1..(Cardinality(DOMAIN ino) + 1) : i \notin DOMAIN ino

\* An inode lives while a path names it or a descriptor is open on it.
Live(ino, nm, f) ==
    [i \in {j \in DOMAIN ino :
              \/ \E p \in DOMAIN nm : nm[p] = j
              \/ \E r \in DOMAIN f : f[r] = j} |-> ino[i]]

FileAt(p) == IF exists(p) THEN Some(inodes[names[p]]) ELSE None

Fail(r, e, c) ==
    /\ pc' = [pc EXCEPT ![r] = "failed"]
    /\ err' = [err EXCEPT ![r] = e]
    /\ cause' = [cause EXCEPT ![r] = c]

Goto(r, l) ==
    /\ pc' = [pc EXCEPT ![r] = l]
    /\ UNCHANGED <<err, cause>>

InitFs(o) ==
    \E d \in BOOLEAN, t \in BOOLEAN, dir \in BOOLEAN :
        /\ (d \/ t \/ parent(o) = None) => dir
        /\ dirExists = dir
        /\ names = [p \in {o, temp_path(o)} |->
                      IF p = o THEN (IF d THEN 1 ELSE NoFile)
                      ELSE (IF t THEN 2 ELSE NoFile)]
        /\ inodes = [i \in (IF d THEN {1} ELSE {}) \cup
                           (IF t /\ temp_path(o) # o THEN {2} ELSE {}) |->
                        IF i = 1 THEN OldContent ELSE StaleContent]
        /\ fs0 = [dirExists |-> dirExists, names |-> names, inodes |-> inodes]
        /\ observed = None

InitRuns(R) ==
    /\ \E o \in Outputs :
          /\ args \in [R -> [config : RunUrls, output : {o}, force : BOOLEAN]]
          /\ InitFs(o)
    /\ pc = [r \in R |-> "parse"]
    /\ vless = [r \in R |-> None]
    /\ xray = [r \in R |-> None]
    /\ json = [r \in R |-> None]
    /\ fd = [r \in R |-> NoFile]
    /\ off = [r \in R |-> 0]
    /\ err = [r \in R |-> "none"]
    /\ cause = [r \in R |-> "none"]
    /\ PureIdle

\* main: let vless_config = parse_config(&args.config)?;
MainParse(r) ==
    /\ pc[r] = "parse"
    /\ LET res == parse_config(args[r].config)
       IN  IF res.err = "none"
           THEN /\ vless' = [vless EXCEPT ![r] = res.val]
                /\ Goto(r, "build")
           ELSE /\ Fail(r, res.err, "none")
                /\ UNCHANGED vless
    /\ UNCHANGED <<pureVars, args, xray, json, fd, off, fsVars>>

\* main: let xray_config = build_config(&vless_config);
MainBuild(r) ==
    /\ pc[r] = "build"
    /\ xray' = [xray EXCEPT ![r] = Some(build_config(vless[r][1]))]
    /\ Goto(r, "exists")
    /\ UNCHANGED <<pureVars, args, vless, json, fd, off, fsVars>>

\* save_config: if output_path.exists() && !force { return Err(..) }
SaveExists(r) ==
    /\ pc[r] = "exists"
    /\ IF refuses(exists(args[r].output), args[r].force)
       THEN Fail(r, "DestinationExists", "none")
       ELSE Goto(r, "serialize")
    /\ UNCHANGED <<pureVars, args, vless, xray, json, fd, off, fsVars>>

\* save_config: let json_content = serde_json::to_string_pretty(config)?;
SaveSerialize(r) ==
    /\ pc[r] = "serialize"
    /\ json' = [json EXCEPT ![r] = Some(to_string_pretty(xray[r][1]))]
    /\ Goto(r, "mkdir")
    /\ UNCHANGED <<pureVars, args, vless, xray, fd, off, fsVars>>

\* save_config: fs::create_dir_all(parent)?, skipped for an empty parent
SaveMkdir(r) ==
    /\ pc[r] = "mkdir"
    /\ dirExists' = (dirExists \/ parent(args[r].output) # None)
    /\ Goto(r, "open")
    /\ UNCHANGED <<pureVars, args, vless, xray, json, fd, off,
                   names, inodes, fs0, observed>>

\* fs::write(&temp_path, ..): File::create opens the path, creating it or
\* truncating the file already there.
SaveOpen(r) ==
    /\ pc[r] = "open"
    /\ LET t == temp_path(args[r].output)
       IN  IF ~dirExists
           THEN /\ Fail(r, "PersistenceError", "ENOENT")
                /\ UNCHANGED <<names, inodes, fd>>
           ELSE LET i == IF exists(t) THEN names[t] ELSE FreshInode(inodes)
                IN  /\ names' = [names EXCEPT ![t] = i]
                    /\ inodes' = [j \in DOMAIN inodes \cup {i} |->
                                    IF j = i THEN <<>> ELSE inodes[j]]
                    /\ fd' = [fd EXCEPT ![r] = i]
                    /\ Goto(r, "write")
    /\ off' = [off EXCEPT ![r] = 0]
    /\ UNCHANGED <<pureVars, args, vless, xray, json, dirExists, fs0, observed>>

\* fs::write(&temp_path, ..): one write call of write_all; the descriptor is
\* closed after the last one.
SaveWrite(r) ==
    /\ pc[r] = "write"
    /\ LET text == json[r][1]
           n    == Min(ChunkLen, Len(text) - off[r])
           data == SubSeq(text, off[r] + 1, off[r] + n)
           last == off[r] + n = Len(text)
           fd2  == IF last THEN [fd EXCEPT ![r] = NoFile] ELSE fd
       IN  /\ inodes' = Live([inodes EXCEPT ![fd[r]] = WriteAt(@, off[r], data)],
                             names, fd2)
           /\ off' = [off EXCEPT ![r] = off[r] + n]
           /\ fd' = fd2
           /\ Goto(r, IF last THEN "rename" ELSE "write")
    /\ UNCHANGED <<pureVars, args, vless, xray, json, dirExists, names,
                   fs0, observed>>

\* fs::rename(&temp_path, output_path)?
SaveRename(r) ==
    /\ pc[r] = "rename"
    /\ LET from == temp_path(args[r].output)
           to   == args[r].output
       IN  IF ~exists(from)
           THEN /\ Fail(r, "PersistenceError", "ENOENT")
                /\ UNCHANGED <<names, inodes>>
           ELSE LET nm == IF from = to THEN names
                          ELSE [names EXCEPT ![to] = names[from],
                                             ![from] = NoFile]
                IN  /\ names' = nm
                    /\ inodes' = Live(inodes, nm, fd)
                    /\ Goto(r, "done")
    /\ UNCHANGED <<pureVars, args, vless, xray, json, fd, off, dirExists,
                   fs0, observed>>

\* IoError with the result of fs::write dropped instead of propagated.
IoErrorIgnoredOnWrite(r) ==
    /\ pc[r] \in {"mkdir", "open", "write", "rename"}
    /\ IF pc[r] = "write"
       THEN Goto(r, "rename")
       ELSE Fail(r, "PersistenceError", "EIO")
    /\ fd' = [fd EXCEPT ![r] = NoFile]
    /\ inodes' = Live(inodes, names, fd')
    /\ UNCHANGED <<pureVars, args, vless, xray, json, off, dirExists, names,
                   fs0, observed>>

\* The ? after create_dir_all, fs::write and fs::rename: the call failed
\* (permission, disk full, ...), nothing more is done.  A failed call has
\* no effect of its own; what earlier calls did stays.
IoError(r) ==
    /\ pc[r] \in {"mkdir", "open", "write", "rename"}
    /\ Fail(r, "PersistenceError", "EIO")
    /\ fd' = [fd EXCEPT ![r] = NoFile]
    /\ inodes' = Live(inodes, names, fd')
    /\ UNCHANGED <<pureVars, args, vless, xray, json, off, dirExists, names,
                   fs0, observed>>

\* A concurrent reader opens and reads the destination path.
Read ==
    /\ Runs # {}
    /\ \E o \in {args[r].output : r \in Runs} :
          /\ observed' = FileAt(o)
          /\ observed' # observed
    /\ UNCHANGED <<pureVars, runVars, dirExists, names, inodes, fs0>>

\* One run of main and a concurrent reader of the destination.
Init == InitRuns({1})

Next ==
    \/ \E r \in Runs : MainParse(r)
    \/ \E r \in Runs : MainBuild(r)
    \/ \E r \in Runs : SaveExists(r)
    \/ \E r \in Runs : SaveSerialize(r)
    \/ \E r \in Runs : SaveMkdir(r)
    \/ \E r \in Runs : SaveOpen(r)
    \/ \E r \in Runs : SaveWrite(r)
    \/ \E r \in Runs : SaveRename(r)
    \/ \E r \in Runs : IoError(r)
    \/ Read

Spec == Init /\ [][Next]_vars

\* Two concurrent runs of main on the same destination.
InitTwo == InitRuns({1, 2})

NextTwo ==
    \/ \E r \in Runs : MainParse(r)
    \/ \E r \in Runs : MainBuild(r)
    \/ \E r \in Runs : SaveExists(r)
    \/ \E r \in Runs : SaveSerialize(r)
    \/ \E r \in Runs : SaveMkdir(r)
    \/ \E r \in Runs : SaveOpen(r)
    \/ \E r \in Runs : SaveWrite(r)
    \/ \E r \in Runs : SaveRename(r)
    \/ \E r \in Runs : IoError(r)

SpecTwo == InitTwo /\ [][NextTwo]_vars

\* ------------------------------------------------------------------------
\* Properties of parse_config (checked under SpecParse)
\* ------------------------------------------------------------------------

NoIdentity(u) == u.user = None \/ u.user = Some("")
NoPort(u)     == u.port = None \/ u.port = Some(<<>>)

\* C5: parse_config returns the error of the first check that fails, in the
\* order scheme prefix, URL well-formedness, identity, host, port, and never
\* a descriptor with it: an input that does not begin with vless:// fails
\* with InvalidScheme whatever else is wrong with it, a well-formed vless://
\* link without identity fails with MissingIdentity, and one with identity
\* and host but without port fails with MissingPort.
C5_FirstFailingCheck ==
    parsed # None =>
        LET r == parsed[1]
            schemeOk == url.prefix = "vless://"
            wellFormed == UrlParseError(url) = "ok"
        IN  /\ ~schemeOk => r.err = "InvalidScheme"
            /\ schemeOk /\ ~wellFormed => r.err = "MalformedUrl"
            /\ schemeOk /\ wellFormed /\ NoIdentity(url)
                  => r.err = "MissingIdentity"
            /\ schemeOk /\ wellFormed /\ ~NoIdentity(url) /\ url.host # ""
                  /\ NoPort(url) => r.err = "MissingPort"
            /\ r.err # "none" => r.val = None
            /\ r.err = "none" =>
                  schemeOk /\ wellFormed /\ ~NoIdentity(url) /\ ~NoPort(url)

\* A link lacking both identity and port has been parsed: the identity is
\* reported.
C5_Witness ==
    /\ parsed # None
    /\ url.prefix = "vless://" /\ UrlParseError(url) = "ok"
    /\ NoIdentity(url) /\ NoPort(url)
    /\ parsed[1].err = "MissingIdentity"

\* C7: the tag of a successfully parsed link is its fragment with the
\* percent-encoding decoded, and the default literal is used exactly when
\* the link has no fragment.
C7_TagIsDecodedFragment ==
    (parsed # None /\ parsed[1].err = "none") =>
        parsed[1].val[1].tag =
            IF url.frag = None THEN DefaultTag
            ELSE Join(PercentDecode(url.frag[1]))

\* ------------------------------------------------------------------------
\* Properties of build_config (checked under SpecBuild)
\* ------------------------------------------------------------------------

Stream(o) == o[1].outbounds[1].streamSettings
UserOf(o) == o[1].outbounds[1].settings.vnext[1].users[1]

HasParam(d, k) == k \in DOMAIN d.params

ModeOf(d) ==
    IF ~HasParam(d, "security") THEN "tls"
    ELSE IF d.params["security"] \in {"reality", "tls"}
         THEN d.params["security"] ELSE "other"

\* C6: streamSettings has realitySettings and no tlsSettings for
\* security=reality, tlsSettings and no realitySettings for security=tls or
\* no security parameter, and only network and security for any other value.
C6_SecurityBranching ==
    out1 # None =>
        LET keys == DOMAIN Stream(out1)
        IN  /\ ModeOf(d1) = "reality" =>
                  keys = {"network", "security", "realitySettings"}
            /\ ModeOf(d1) = "tls" =>
                  keys = {"network", "security", "tlsSettings"}
            /\ ModeOf(d1) = "other" => keys = {"network", "security"}

\* security is the empty string and the built streamSettings has no block.
C6_Witness ==
    /\ out1 # None
    /\ HasParam(d1, "security") /\ d1.params["security"] = ""
    /\ DOMAIN Stream(out1) = {"network", "security"}

AgreeOnRecognized(a, b) ==
    /\ a.uuid = b.uuid /\ a.address = b.address
    /\ a.port = b.port /\ a.tag = b.tag
    /\ \A k \in Recognized :
          /\ HasParam(a, k) <=> HasParam(b, k)
          /\ HasParam(a, k) => a.params[k] = b.params[k]

\* C8: two descriptors that agree on identity, host, port, tag and the seven
\* recognized parameters yield the same configuration and the same
\* serialized text, whatever their unrecognized parameters are.
C8_OnlyRecognizedConsulted ==
    (out1 # None /\ out2 # None /\ AgreeOnRecognized(d1, d2)) =>
        /\ out1 = out2
        /\ to_string_pretty(out1[1]) = to_string_pretty(out2[1])

\* Two descriptors differing in an unrecognized parameter have been built.
C8_Witness ==
    /\ out1 # None /\ out2 # None
    /\ d1 # d2 /\ AgreeOnRecognized(d1, d2)

\* C9: in tls mode tlsSettings.serverName is the sni parameter, or the host
\* when sni is absent; in reality mode realitySettings.fingerprint is the fp
\* parameter, or "chrome" when fp is absent, and realitySettings.serverName
\* is the sni parameter, or the empty string when sni is absent.
C9_Defaults ==
    out1 # None =>
        /\ ModeOf(d1) = "tls" =>
              Stream(out1).tlsSettings.serverName =
                  IF HasParam(d1, "sni") THEN d1.params["sni"] ELSE d1.address
        /\ ModeOf(d1) = "reality" =>
              /\ Stream(out1).realitySettings.fingerprint =
                    IF HasParam(d1, "fp") THEN d1.params["fp"] ELSE "chrome"
              /\ Stream(out1).realitySettings.serverName =
                    IF HasParam(d1, "sni") THEN d1.params["sni"] ELSE ""

\* tls mode by default, no sni: the server name is the host.
C9_Witness ==
    /\ out1 # None
    /\ ~HasParam(d1, "security") /\ ~HasParam(d1, "sni")
    /\ Stream(out1).tlsSettings.serverName = d1.address

FlowLine(v) == KV("                ", "flow", Q(v), TRUE)

Lines(t) == {t[i] : i \in DOMAIN t}

\* C10: the user object has a flow field exactly when the descriptor has a
\* flow parameter (an empty one included), its value is that parameter, and
\* without the parameter the serialized text has no flow line at all.
C10_FlowPresence ==
    out1 # None =>
        /\ "flow" \in DOMAIN UserOf(out1) <=> HasParam(d1, "flow")
        /\ HasParam(d1, "flow") =>
              /\ UserOf(out1).flow = d1.params["flow"]
              /\ FlowLine(d1.params["flow"]) \in Lines(to_string_pretty(out1[1]))
        /\ ~HasParam(d1, "flow") =>
              \A v \in ParamValues["flow"] \cup {"", "null"} :
                  FlowLine(v) \notin Lines(to_string_pretty(out1[1]))

\* A descriptor with an empty flow parameter has been built.
C10_Witness ==
    /\ out1 # None
    /\ HasParam(d1, "flow") /\ d1.params["flow"] = ""
    /\ UserOf(out1).flow = ""

\* ------------------------------------------------------------------------
\* Properties of save_config and main (checked under Spec and SpecTwo)
\* ------------------------------------------------------------------------

Out  == args[CHOOSE r \in Runs : TRUE].output
Temp == temp_path(Out)

\* the destination before any run started
Dest0 == IF fs0.names[Out] # NoFile
         THEN Some(fs0.inodes[fs0.names[Out]]) ELSE None

ParseOk(r) == parse_config(args[r].config).err = "none"

\* the text a run is to write, from its command line alone
Expected(r) ==
    to_string_pretty(build_config(parse_config(args[r].config).val[1]))

NewFiles == {Some(Expected(r)) : r \in {x \in Runs : ParseOk(x)}}

\* C1: while one run of save_config creates the directory, writes the
\* temporary file and renames it, the destination holds, and a concurrent
\* reader of it sees, either what was there before (the old file or no
\* file) or the complete new text.
C1_ReaderSeesOldOrNew ==
    /\ FileAt(Out) \in {Dest0} \cup NewFiles
    /\ observed \in {None, Dest0} \cup NewFiles

\* The temporary file is partly written and the reader has just read the
\* old file at the destination.
C1_Witness ==
    /\ pc[1] = "write" /\ off[1] > 0
    /\ FileAt(Temp) # None /\ FileAt(Temp) # json[1]
    /\ Dest0 = Some(OldContent)
    /\ observed = Dest0

NoEnvironmentFailure(r) ==
    /\ ParseOk(r)
    /\ err[r] # "DestinationExists"
    /\ ~(err[r] = "PersistenceError" /\ cause[r] = "EIO")

\* C2: when two runs that are both allowed to write target the same
\* destination and no system call fails on its own, both runs succeed and
\* the destination ends up with the complete text of one of them.
C2_LastRenameWins ==
    (\A r \in Runs : pc[r] \in {"done", "failed"} /\ NoEnvironmentFailure(r))
        => /\ \A r \in Runs : pc[r] = "done"
           /\ FileAt(Out) \in NewFiles

\* C3: with a file at the destination and no overwrite flag the run fails
\* with DestinationExists having changed nothing in the file system (no
\* directory, no temporary file, the old file as it was); with the flag, a
\* run that succeeds leaves exactly its new text at the destination.
C3_OverwriteFlag ==
    \A r \in Runs :
        /\ (/\ pc[r] \notin {"parse", "build", "exists"}
            /\ ParseOk(r) /\ Dest0 # None /\ ~args[r].force)
              => pc[r] = "failed" /\ err[r] = "DestinationExists"
        /\ err[r] = "DestinationExists" =>
              /\ Dest0 # None /\ ~args[r].force
              /\ [dirExists |-> dirExists, names |-> names,
                  inodes |-> inodes] = fs0
        /\ (pc[r] = "done" /\ args[r].force) =>
              FileAt(Out) = Some(Expected(r))

\* A run without the flag has been refused; a stale temporary file of an
\* earlier run is still what it was.
C3_Witness ==
    /\ err[1] = "DestinationExists"
    /\ FileAt(Out) = Some(OldContent)
    /\ FileAt(Temp) = Some(StaleContent)

\* C4 as stated: after any failure the destination is as it was before the
\* run, and nothing but the temporary file was added to the file system.
C4_FailureLeavesOnlyTemp ==
    \A r \in Runs :
        pc[r] = "failed" =>
            /\ FileAt(Out) = Dest0
            /\ names[Out] = fs0.names[Out]
            /\ dirExists = fs0.dirExists

DestinationAsBefore == FileAt(Out) = Dest0 /\ names[Out] = fs0.names[Out]

\* C4 amended: a failure is terminal and leaves the destination as it was
\* before the run; the destination changes only in the rename, which a run
\* reaches only with descriptor, configuration and text in hand and the
\* whole text in the temporary file; what a failed run leaves behind is at
\* most the temporary file and the parent directory it created.
C4_FailureLeavesDestination ==
    /\ [](\A r \in Runs : pc[r] = "failed" => DestinationAsBefore)
    /\ [][\A r \in Runs : pc[r] = "failed" =>
             /\ pc'[r] = "failed"
             /\ <<dirExists, names, inodes>>' = <<dirExists, names, inodes>>]_vars
    /\ [][FileAt(Out)' # FileAt(Out) =>
             \E r \in Runs :
                /\ pc[r] = "rename" /\ pc'[r] = "done"
                /\ vless[r] # None /\ xray[r] # None /\ json[r] # None
                /\ FileAt(Temp) = json[r]
                /\ FileAt(Out)' = json[r]]_vars

\* A write failed half way: the new directory and a partial temporary file
\* stay, the old destination is untouched.
C4_Witness ==
    /\ pc[1] = "failed" /\ err[1] = "PersistenceError"
    /\ off[1] > 0
    /\ FileAt(Temp) # None /\ FileAt(Temp) # json[1]
    /\ DestinationAsBefore

====
